---- MODULE Spec2Model ----
(***************************************************************************)
(* Model of src/src/popddynCPP.cpp (DLMtool): the one-year transition      *)
(* popdynOneTScpp and the projection loop popdynCPP.                       *)
(*                                                                         *)
(* Numbers.  A C++ double is modelled as an extended rational <<n, d>>:    *)
(*   d > 0  : the rational n/d in lowest terms                             *)
(*   <<1,0>>: +infinity, <<-1,0>>: -infinity, <<0,0>>: NaN                  *)
(* with the IEEE-754 rules for the special values (x/0, 0/0, inf*0,        *)
(* inf-inf, comparisons with NaN are false).  Rounding and the sign of     *)
(* zero are not modelled: finite arithmetic is exact.  In the properties,  *)
(* "equals" is identity of these values (so NaN = NaN) and an order (Gt,   *)
(* Ge, Le) is the IEEE comparison.                                         *)
(*                                                                         *)
(* Rates.  Mortality rates are held in units of ln 2, so that exp(-z) is   *)
(* the rational 2^(-z) whenever z is an integer; between two integers Exp  *)
(* interpolates linearly.  Every other use of a rate in the source (sum,   *)
(* product with a pure number, comparison with maxF) is unit-free.         *)
(***************************************************************************)
EXTENDS Integers, Sequences, FiniteSets, TLC

(* ------------------------------ bounds --------------------------------- *)
MaxAreas == 2
MaxAge == 2
MaxYears == 3

(* ------------------------------ doubles -------------------------------- *)
Abs(i) == IF i < 0 THEN -i ELSE i
Sgn(i) == IF i < 0 THEN -1 ELSE IF i > 0 THEN 1 ELSE 0

RECURSIVE GCD(_, _)
GCD(a, b) == IF b = 0 THEN a ELSE GCD(b, a % b)

\* the double with numerator n and denominator d >= 0
Norm(n, d) ==
  IF d = 0 THEN <<Sgn(n), 0>>
  ELSE LET g == GCD(Abs(n), d) IN <<n \div g, d \div g>>

NaN == <<0, 0>>
PInf == <<1, 0>>
NInf == <<-1, 0>>
Zero == <<0, 1>>
One == <<1, 1>>
Num(i) == <<i, 1>>
Frac(n, d) == Norm(n, d)

IsNaN(a) == a = NaN
IsFinite(a) == a[2] # 0
IsInf(a) == a = PInf \/ a = NInf

Neg(a) == <<-a[1], a[2]>>
\* the finite cases cancel common factors before they multiply
Add(a, b) ==
  IF a[2] = 0 /\ b[2] = 0 THEN (IF a = b THEN a ELSE NaN)
  ELSE IF a[2] = 0 THEN a
  ELSE IF b[2] = 0 THEN b
  ELSE LET g == GCD(a[2], b[2])
       IN Norm(a[1] * (b[2] \div g) + b[1] * (a[2] \div g), (a[2] \div g) * b[2])
Sub(a, b) == Add(a, Neg(b))
Mul(a, b) ==
  IF a[2] = 0 \/ b[2] = 0 \/ a[1] = 0 \/ b[1] = 0 THEN Norm(a[1] * b[1], a[2] * b[2])
  ELSE LET g1 == GCD(Abs(a[1]), b[2])
           g2 == GCD(Abs(b[1]), a[2])
       IN <<(a[1] \div g1) * (b[1] \div g2), (a[2] \div g2) * (b[2] \div g1)>>
\* 1/b; 1/0 is +infinity, 1/inf is 0
Inv(b) == IF b[1] < 0 THEN <<-b[2], -b[1]>> ELSE <<b[2], b[1]>>
Div(a, b) ==
  IF a[2] = 0 \/ b[2] = 0 \/ a[1] = 0 \/ b[1] = 0
  THEN (IF b[1] < 0 THEN Norm(-(a[1] * b[2]), -(a[2] * b[1])) ELSE Norm(a[1] * b[2], a[2] * b[1]))
  ELSE Mul(a, Inv(b))

\* a > b as the hardware compares: false when either is NaN
Gt(a, b) ==
  /\ ~IsNaN(a)
  /\ ~IsNaN(b)
  /\ IF a[2] = 0 \/ b[2] = 0
     THEN (IF a[2] = 0 /\ b[2] = 0 THEN a[1] > b[1] ELSE a[1] * b[2] > b[1] * a[2])
     ELSE LET g == GCD(a[2], b[2]) IN a[1] * (b[2] \div g) > b[1] * (a[2] \div g)
Ge(a, b) == ~IsNaN(a) /\ ~IsNaN(b) /\ ~Gt(b, a)
Le(a, b) == Ge(b, a)

RECURSIVE Pow2(_)
Pow2(k) == IF k = 0 THEN 1 ELSE 2 * Pow2(k - 1)

\* exp(a), a in units of ln 2: 2^k at an integer k, linear in between
Exp(a) ==
  IF ~IsFinite(a) THEN (IF a = NInf THEN Zero ELSE a)
  ELSE LET k == a[1] \div a[2]
           r == Norm(a[1] - k * a[2], a[2])
           m == Add(One, r)
       IN IF k >= 0 THEN Mul(Num(Pow2(k)), m) ELSE Div(m, Num(Pow2(-k)))

\* log(a) in units of ln 2, the inverse of Exp
RECURSIVE LogUp(_, _)
LogUp(a, k) == IF Gt(Num(2), a) THEN Add(Num(k), Sub(a, One)) ELSE LogUp(Div(a, Num(2)), k + 1)
RECURSIVE LogDown(_, _)
LogDown(a, k) == IF Ge(a, One) THEN Add(Num(k), Sub(a, One)) ELSE LogDown(Mul(a, Num(2)), k - 1)
Log(a) ==
  IF IsNaN(a) \/ Gt(Zero, a) THEN NaN
  ELSE IF a = Zero THEN NInf
  ELSE IF a = PInf THEN PInf
  ELSE IF Ge(a, One) THEN LogUp(a, 0) ELSE LogDown(a, 0)

\* std::pow(a, k) for an integer exponent k >= 0; pow(x, 0) is 1 for every x
RECURSIVE Pow(_, _)
Pow(a, k) == IF k = 0 THEN One ELSE Mul(a, Pow(a, k - 1))

\* sum of v[0] .. v[n-1]
RECURSIVE SumTo(_, _)
SumTo(v, n) == IF n = 0 THEN Zero ELSE Add(SumTo(v, n - 1), v[n - 1])

(* --------------------------- popdynOneTScpp ---------------------------- *)
\* Beverton-Holt recruitment in area A
RecruitBH(A, SSBcurr, PerrYr, hs, R0a, SSBpR) ==
  Div(Mul(PerrYr, Mul(Mul(Mul(Num(4), R0a[A]), hs), SSBcurr[A])),
      Add(Mul(Mul(SSBpR[A], R0a[A]), Sub(One, hs)),
          Mul(Sub(Mul(Num(5), hs), One), SSBcurr[A])))

\* Ricker recruitment in area A
RecruitRicker(A, SSBcurr, PerrYr, aR, bR) ==
  Mul(Mul(Mul(PerrYr, aR[A]), SSBcurr[A]), Exp(Neg(Mul(bR[A], SSBcurr[A]))))

Recruit(A, SSBcurr, PerrYr, hs, R0a, SSBpR, aR, bR, SRrel) ==
  IF SRrel = 1 THEN RecruitBH(A, SSBcurr, PerrYr, hs, R0a, SSBpR)
  ELSE RecruitRicker(A, SSBcurr, PerrYr, aR, bR)

SurviveBad(n, z) == Mul(n, Sub(One, Exp(Neg(z))))
\* survivors of age-1 reaching age (age >= 1)
Survive(n, z) == Mul(n, Exp(Neg(z)))

PlusGroupBad(n, z) == Div(n, Add(One, Exp(Neg(z))))
\* the oldest age class with the plus group
PlusGroup(n, z) == Div(n, Sub(One, Exp(Neg(z))))

\* Nnext before the stock is moved
Ageing(nareas, maxage, SSBcurr, Ncurr, Zcurr, PerrYr, hs, R0a, SSBpR, aR, bR, SRrel, plusgroup) ==
  [age \in 0..(maxage - 1) |-> [A \in 0..(nareas - 1) |->
     LET n == IF age = 0
              THEN Recruit(A, SSBcurr, PerrYr, hs, R0a, SSBpR, aR, bR, SRrel)
              ELSE Survive(Ncurr[age - 1][A], Zcurr[age - 1][A])
     IN IF plusgroup > 0 /\ age = maxage - 1
        THEN PlusGroup(n, Zcurr[maxage - 1][A])
        ELSE n]]

MoveStockBad(nareas, maxage, Nnext, mov) ==
  [age \in 0..(maxage - 1) |-> [BB \in 0..(nareas - 1) |->
     SumTo([AA \in 0..(nareas - 1) |-> Mul(Nnext[age][AA], mov[age][BB][AA])], nareas)]]
\* Nstore: tempMat2(BB, AA) = Nnext(age, AA) * mov(age, AA, BB), summed over AA
MoveStock(nareas, maxage, Nnext, mov) ==
  [age \in 0..(maxage - 1) |-> [BB \in 0..(nareas - 1) |->
     SumTo([AA \in 0..(nareas - 1) |-> Mul(Nnext[age][AA], mov[age][AA][BB])], nareas)]]

\* the call's pre-movement matrix Nnext and its result Nstore
popdynOneTScpp(nareas, maxage, SSBcurr, Ncurr, Zcurr, PerrYr, hs, R0a, SSBpR, aR, bR, mov, SRrel, plusgroup) ==
  LET Result(Nnext) == [Nnext |-> Nnext, Nstore |-> MoveStock(nareas, maxage, Nnext, mov)]
  IN Result(Ageing(nareas, maxage, SSBcurr, Ncurr, Zcurr, PerrYr, hs, R0a, SSBpR, aR, bR, SRrel, plusgroup))

(* ------------------------------ popdynCPP ------------------------------ *)
\* accu of a (maxage x pyears) slice of a cube for area A
Accu(cube, maxage, pyears, A) ==
  SumTo([a \in 0..(maxage - 1) |-> SumTo([y \in 0..(pyears - 1) |-> cube[a][y][A]], pyears)], maxage)

\* accu of column y of a cube for area A
AccuYear(cube, maxage, y, A) == SumTo([a \in 0..(maxage - 1) |-> cube[a][y][A]], maxage)

\* cube.subcube(0, y, 0, maxage-1, y, nareas-1) as a (maxage x nareas) matrix
YearSlice(cube, y) == [a \in DOMAIN cube |-> [A \in DOMAIN cube[a][y] |-> cube[a][y][A]]]

SetYearBad(cube, y, mat) == [a \in DOMAIN cube |-> [cube[a] EXCEPT ![y] = mat[a], ![0] = mat[a]]]
\* cube.subcube(0, y, 0, maxage-1, y, nareas-1) = mat
SetYear(cube, y, mat) == [a \in DOMAIN cube |-> [cube[a] EXCEPT ![y] = mat[a]]]

\* elementwise product of a (maxage x nareas) matrix with column y of an age schedule
TimesCol(mat, sched, y) == [a \in DOMAIN mat |-> [A \in DOMAIN mat[a] |-> Mul(mat[a][A], sched[a][y])]]

\* M_age.col(y) in every area
MCol(M_age, y, maxage, nareas) == [a \in 0..(maxage - 1) |-> [A \in 0..(nareas - 1) |-> M_age[a][y]]]

\* pow(tempVec, Spat_targc) / sum(pow(tempVec, Spat_targc))
FishDist(tv, Spat_targc, nareas) ==
  LET pw == [A \in 0..(nareas - 1) |-> Pow(tv[A], Spat_targc)]
      s == SumTo(pw, nareas)
  IN [A \in 0..(nareas - 1) |-> Div(pw[A], s)]

ClosureMaskBad(row, fd, nareas) == [A \in 0..(nareas - 1) |-> Mul(Sub(One, row[A]), fd[A])]
\* d1(A) = MPA(yr, A) * fishdist(A)
ClosureMask(row, fd, nareas) == [A \in 0..(nareas - 1) |-> Mul(row[A], fd[A])]

ReallocateBad(dd, fE, nareas) == [A \in 0..(nareas - 1) |-> Mul(dd[A], Add(fE, Sub(One, fE)))]
\* fracE2(A) = d1(A) * (fracE + (1 - fracE)) / fracE
Reallocate(dd, fE, nareas) ==
  [A \in 0..(nareas - 1) |-> Div(Mul(dd[A], Add(fE, Sub(One, fE))), fE)]

FmultBad(control, Effind, Qc, Fapic, y) == IF control = 1 THEN Mul(Effind[y], Qc) ELSE Mul(Effind[y], Fapic)
\* the multiplier of the control mode: Effind(y) * Qc (mode 1) or Fapic (mode 2)
Fmult(control, Effind, Qc, Fapic, y) == IF control = 1 THEN Mul(Effind[y], Qc) ELSE Fapic

\* (mult * fishdist(A) * sel.col(y)) / Asize_c(A) for every age and area
FatAge(mult, fd, sel, y, Asize_c) ==
  [a \in DOMAIN sel |-> [A \in DOMAIN fd |-> Div(Mul(Mul(mult, fd[A]), sel[a][y]), Asize_c[A])]]

FillBad(x, maxF) == IF Gt(x, maxF) THEN x ELSE maxF
\* elem(find(x > maxF)).fill(maxF) for one element x
Fill(x, maxF) == IF Gt(x, maxF) THEN maxF ELSE x

\* cube.elem(find(cube > maxF)).fill(maxF)
ClampF(cube, maxF) ==
  [a \in DOMAIN cube |-> [y \in DOMAIN cube[a] |-> [A \in DOMAIN cube[a][y] |->
     Fill(cube[a][y][A], maxF)]]]

\* elementwise sum of two matrices
MatAdd(m1, m2) == [a \in DOMAIN m1 |-> [A \in DOMAIN m1[a] |-> Add(m1[a][A], m2[a][A])]]

\* v / (sum(v) / total)
Rescale(v, total, nareas) ==
  LET s == Div(SumTo(v, nareas), total) IN [A \in 0..(nareas - 1) |-> Div(v[A], s)]

\* bRc2(A) = log(5 * hc) / (0.8 * SSB0a(A))
RickerB(hc, ssb0) == Div(Log(Mul(Num(5), hc)), Mul(Frac(4, 5), ssb0))

\* aRc2(A) = exp(bRc2(A) * SSB0a(A)) / SSBpRc(A)
RickerA(b, ssb0, sbpr) == Div(Exp(Mul(b, ssb0)), sbpr)

(* ------------------------------- inputs -------------------------------- *)
\* a (maxage x pyears x nareas) cube of zeros (arma::fill::zeros)
ZeroCube(maxage, pyears, nareas) ==
  [a \in 0..(maxage - 1) |-> [y \in 0..(pyears - 1) |-> [A \in 0..(nareas - 1) |-> Zero]]]

\* a vector of nareas zeros
ZeroVec(nareas) == [A \in 0..(nareas - 1) |-> Zero]

\* movement, one (from x to) matrix per age.  "stay": nobody moves; "mix": ages
\* above 0 send half to the next area; "toLast": everybody goes to the last
\* area; "leak": half stays and half is lost (the fractions do not sum to 1)
MovOf(kind, maxage, nareas) ==
  [age \in 0..(maxage - 1) |-> [AA \in 0..(nareas - 1) |-> [BB \in 0..(nareas - 1) |->
     CASE kind = "stay" -> IF AA = BB THEN One ELSE Zero
       [] kind = "mix" ->
            IF age = 0 THEN (IF AA = BB THEN One ELSE Zero)
            ELSE Add(IF BB = AA THEN Frac(1, 2) ELSE Zero,
                     IF BB = (AA + 1) % nareas THEN Frac(1, 2) ELSE Zero)
       [] kind = "toLast" -> IF BB = nareas - 1 THEN One ELSE Zero
       [] OTHER -> IF AA = BB THEN Frac(1, 2) ELSE Zero]]]

\* one row of the MPA matrix
MPARow(kind, nareas) ==
  [A \in 0..(nareas - 1) |->
     CASE kind = "open" -> One
       [] kind = "closed" -> Zero
       [] kind = "first" -> IF A = 0 THEN Zero ELSE One
       [] OTHER -> IF A = 0 THEN Frac(1, 2) ELSE One]

\* the closure schedules tried: the row kind of each year
MPAKinds == {"allopen", "closed0", "first0", "half1", "firstall", "closed1"}
\* ("half0", the first area half open in year 0, is used by the shorter runs)
MPAOf(sched, pyears, nareas) ==
  [y \in 0..(pyears - 1) |->
     MPARow(CASE sched = "allopen" -> "open"
              [] sched = "closed0" -> IF y = 0 THEN "closed" ELSE "open"
              [] sched = "first0" -> IF y = 0 THEN "first" ELSE "open"
              [] sched = "half1" -> IF y = 1 THEN "half" ELSE "open"
              [] sched = "half0" -> IF y = 0 THEN "half" ELSE "open"
              [] sched = "firstall" -> "first"
              [] OTHER -> IF y = 1 THEN "closed" ELSE "open", nareas)]

\* the arguments of one call of popdynCPP
Args(nareas, maxage, pyears, control, plusgroup, SRrelc, Spat_targc, maxF, effk, movk, mpak) ==
  [nareas |-> nareas, maxage |-> maxage, pyears |-> pyears,
   Ncurr |-> [a \in 0..(maxage - 1) |-> [A \in 0..(nareas - 1) |->
                Num((IF A = 0 THEN 1 ELSE A + 2) * (IF a = 0 THEN 4 ELSE 2))]],
   M_age |-> [a \in 0..(maxage - 1) |-> [y \in 0..(pyears - 1) |-> Num(1 + ((a + y) % 2))]],
   Asize_c |-> [A \in 0..(nareas - 1) |-> Frac(1, nareas)],
   MatAge |-> [a \in 0..(maxage - 1) |-> [y \in 0..(pyears - 1) |-> IF a = 0 THEN Zero ELSE One]],
   WtAge |-> [a \in 0..(maxage - 1) |-> [y \in 0..(pyears - 1) |-> Num(a + 1)]],
   Vuln |-> [a \in 0..(maxage - 1) |-> [y \in 0..(pyears - 1) |-> IF a = 0 THEN Frac(1, 2) ELSE One]],
   Retc |-> [a \in 0..(maxage - 1) |-> [y \in 0..(pyears - 1) |-> IF a = 0 THEN Zero ELSE One]],
   Prec |-> [i \in 0..(pyears + maxage - 2) |-> One],
   movc |-> [y \in 0..(pyears - 1) |-> MovOf(movk, maxage, nareas)],
   SRrelc |-> SRrelc,
   Effind |-> [y \in 0..(pyears - 1) |->
                 CASE effk = "ramp" -> Num(y + 1) [] effk = "double" -> Num(2) [] OTHER -> One],
   Spat_targc |-> Spat_targc,
   hc |-> One,
   R0c |-> [A \in 0..(nareas - 1) |-> Num(4)],
   SSBpRc |-> [A \in 0..(nareas - 1) |-> One],
   aRc |-> [A \in 0..(nareas - 1) |-> One],
   bRc |-> [A \in 0..(nareas - 1) |-> Zero],
   Qc |-> IF effk = "double" THEN Frac(1, 2) ELSE One, Fapic |-> One, maxF |-> maxF,
   MPA |-> MPAOf(mpak, pyears, nareas),
   control |-> control, SSB0c |-> Num(4), plusgroup |-> plusgroup]

\* The argument sets tried.  With Spat_targc = 1 the effort shares are ratios
\* of biomass sums, whose numerators and denominators grow with every year, so
\* those runs are one year shorter, without plus group and with Beverton-Holt
\* recruitment.
ArgSet ==
  {Args(n, MaxAge, MaxYears, c, pg, sr, 0, mf, "flat", mk, mp) :
     n \in 1..MaxAreas, c \in {1, 2}, pg \in {0, 1}, sr \in {1, 2},
     mf \in {Num(2), Frac(-3, 2)}, mk \in {"stay", "mix", "leak"}, mp \in MPAKinds}
  \cup
  {Args(n, MaxAge, MaxYears - 1, c, 0, 1, 1, mf, "flat", mk, mp) :
     n \in 1..MaxAreas, c \in {1, 2}, mf \in {Num(2), Frac(1, 2)},
     mk \in {"stay", "mix"}, mp \in {"allopen", "closed0", "first0", "half0"}}
  \cup
  {Args(n, MaxAge, MaxYears, 1, pg, 1, 0, Num(2), ek, "stay", mp) :
     n \in 1..MaxAreas, pg \in {0, 1}, ek \in {"ramp", "double"}, mp \in MPAKinds}
  \cup
  {Args(n, MaxAge, MaxYears, 3, pg, sr, 0, mf, ek, mk, mp) :
     n \in 1..MaxAreas, pg \in {0, 1}, sr \in {1, 2}, mf \in {Num(2), Frac(-1, 2)},
     ek \in {"flat", "ramp"}, mk \in {"stay", "mix", "leak"}, mp \in {"allopen", "closed0"}}

\* the arguments of one direct call of popdynOneTScpp (plusgroup is given at the call)
TSArgs(nareas, maxage, n0, n1, zYoung, zLast, movk, SRrel) ==
  [nareas |-> nareas, maxage |-> maxage,
   SSBcurr |-> [A \in 0..(nareas - 1) |-> Num(A + 1)],
   Ncurr |-> [a \in 0..(maxage - 1) |-> [A \in 0..(nareas - 1) |-> IF A = 0 THEN n0 ELSE n1]],
   Zcurr |-> [a \in 0..(maxage - 1) |-> [A \in 0..(nareas - 1) |-> IF a = maxage - 1 THEN zLast ELSE zYoung]],
   PerrYr |-> One, hs |-> Frac(4, 5),
   R0a |-> [A \in 0..(nareas - 1) |-> Num(4)],
   SSBpR |-> [A \in 0..(nareas - 1) |-> One],
   aR |-> [A \in 0..(nareas - 1) |-> One],
   bR |-> [A \in 0..(nareas - 1) |-> One],
   mov |-> MovOf(movk, maxage, nareas), SRrel |-> SRrel]

TSArgSet ==
  {TSArgs(n, MaxAge, n0, n1, zy, zl, mk, sr) :
     n \in 1..MaxAreas, n0 \in {Zero, One, Num(3)}, n1 \in {Zero, One, Num(3)},
     zy \in {Zero, Frac(1, 2), One}, zl \in {Zero, One, Num(2)},
     mk \in {"stay", "mix", "toLast", "leak"}, sr \in {1, 2}}

(* ---------------------------- popdynCPP body --------------------------- *)
\* the arguments with control modes 1 and 2 exchanged
Twin(a) == [a EXCEPT !.control = IF @ = 1 THEN 2 ELSE IF @ = 2 THEN 1 ELSE @]

\* lines 128-147: the locals after the declarations
Declared(a) ==
  [Narray |-> ZeroCube(a.maxage, a.pyears, a.nareas),
   Barray |-> ZeroCube(a.maxage, a.pyears, a.nareas),
   SSNarray |-> ZeroCube(a.maxage, a.pyears, a.nareas),
   SBarray |-> ZeroCube(a.maxage, a.pyears, a.nareas),
   VBarray |-> ZeroCube(a.maxage, a.pyears, a.nareas),
   Marray |-> ZeroCube(a.maxage, a.pyears, a.nareas),
   FMarray |-> ZeroCube(a.maxage, a.pyears, a.nareas),
   FMretarray |-> ZeroCube(a.maxage, a.pyears, a.nareas),
   Zarray |-> ZeroCube(a.maxage, a.pyears, a.nareas),
   tempVec |-> ZeroVec(a.nareas), fishdist |-> ZeroVec(a.nareas),
   fishraw |-> ZeroVec(a.nareas), d1 |-> ZeroVec(a.nareas), fracE |-> Zero,
   R0c2 |-> a.R0c, aRc2 |-> a.aRc, bRc2 |-> a.bRc, SSB0a |-> ZeroVec(a.nareas),
   calls |-> << >>]

\* lines 150-193: the initial year takes the locals s to the locals t
YearZero(a, s, t) ==
  \E B0 \in {TimesCol(a.Ncurr, a.WtAge, 0)} :
  \E VB0 \in {SetYear(s.VBarray, 0, TimesCol(B0, a.Vuln, 0))} :
  \E tv \in {[A \in 0..(a.nareas - 1) |-> Accu(VB0, a.maxage, a.pyears, A)]} :
  \E fd \in {FishDist(tv, a.Spat_targc, a.nareas)} :
  \E mult \in {Fmult(a.control, a.Effind, a.Qc, a.Fapic, 0)} :
  \E M0 \in {SetYear(s.Marray, 0, MCol(a.M_age, 0, a.maxage, a.nareas))} :
  \E FM0 \in {ClampF(IF a.control \in {1, 2}
                     THEN SetYear(s.FMarray, 0, FatAge(mult, fd, a.Vuln, 0, a.Asize_c))
                     ELSE s.FMarray, a.maxF)} :
  \E FR0 \in {ClampF(IF a.control \in {1, 2}
                     THEN SetYear(s.FMretarray, 0, FatAge(mult, fd, a.Retc, 0, a.Asize_c))
                     ELSE s.FMretarray, a.maxF)} :
    t = [s EXCEPT !.Narray = SetYear(s.Narray, 0, a.Ncurr),
                  !.Barray = SetYear(s.Barray, 0, B0),
                  !.SSNarray = SetYear(s.SSNarray, 0, TimesCol(a.Ncurr, a.MatAge, 0)),
                  !.SBarray = SetYear(s.SBarray, 0, TimesCol(B0, a.MatAge, 0)),
                  !.VBarray = VB0,
                  !.Marray = M0,
                  !.tempVec = tv,
                  !.fishdist = fd,
                  !.fishraw = fd,
                  !.FMarray = FM0,
                  !.FMretarray = FR0,
                  !.Zarray = SetYear(s.Zarray, 0, MatAdd(YearSlice(M0, 0), YearSlice(FM0, 0)))]

\* lines 252-268: mode 3 sets next year's Z to M, rescales the spawning
\* biomass and R0 by area and recomputes the Ricker parameters
Unfished(a, s, y, t) ==
  \E ssb \in {Rescale([A \in 0..(a.nareas - 1) |-> AccuYear(s.SBarray, a.maxage, y + 1, A)],
                      a.SSB0c, a.nareas)} :
  \E bb \in {[A \in 0..(a.nareas - 1) |-> RickerB(a.hc, ssb[A])]} :
    t = [s EXCEPT !.Zarray = SetYear(s.Zarray, y + 1, YearSlice(s.Marray, y + 1)),
                  !.SSB0a = ssb,
                  !.R0c2 = Rescale([A \in 0..(a.nareas - 1) |-> AccuYear(s.SBarray, a.maxage, y, A)],
                                   SumTo(a.R0c, a.nareas), a.nareas),
                  !.bRc2 = bb,
                  !.aRc2 = [A \in 0..(a.nareas - 1) |-> RickerA(bb[A], ssb[A], a.SSBpRc[A])]]

\* lines 270-283: modes 1 and 2 clamp the two F cubes and set next year's Z
Fished(a, s, y, t) ==
  \E FMc \in {ClampF(s.FMarray, a.maxF)} :
    t = [s EXCEPT !.FMarray = FMc,
                  !.FMretarray = ClampF(s.FMretarray, a.maxF),
                  !.Zarray = SetYear(s.Zarray, y + 1,
                                     MatAdd(YearSlice(s.Marray, y + 1), YearSlice(FMc, y + 1)))]

\* lines 195-285: the iteration yr = y of the loop takes the locals s to t
LoopBody(a, s, y, t) ==
  \E SB \in {IF y > 0 /\ a.control = 3 THEN s.SSB0a
              ELSE [A \in 0..(a.nareas - 1) |-> AccuYear(s.SBarray, a.maxage, y, A)]} :
  \E Ncurr2 \in {YearSlice(s.Narray, y)} :
  \E Zcurr \in {YearSlice(s.Zarray, y)} :
  \E r \in {popdynOneTScpp(a.nareas, a.maxage, SB, Ncurr2, Zcurr, a.Prec[y + a.maxage], a.hc,
                            s.R0c2, a.SSBpRc, s.aRc2, s.bRc2, a.movc[y], a.SRrelc, a.plusgroup)} :
  \E NextYrN \in {r.Nstore} :
  \E Bn \in {TimesCol(NextYrN, a.WtAge, y + 1)} :
  \E VBn \in {SetYear(s.VBarray, y + 1, TimesCol(Bn, a.Vuln, y + 1))} :
  \E tv \in {[A \in 0..(a.nareas - 1) |-> AccuYear(VBn, a.maxage, y + 1, A)]} :
  \E fd \in {FishDist(tv, a.Spat_targc, a.nareas)} :
  \E dd \in {ClosureMask(a.MPA[y], fd, a.nareas)} :
  \E fE \in {SumTo(dd, a.nareas)} :
  \E fE2 \in {Reallocate(dd, fE, a.nareas)} :
  \E mult \in {Fmult(a.control, a.Effind, a.Qc, a.Fapic, y + 1)} :
  \E u \in {[s EXCEPT
               !.Narray = SetYear(s.Narray, y + 1, NextYrN),
               !.Barray = SetYear(s.Barray, y + 1, Bn),
               !.SSNarray = SetYear(s.SSNarray, y + 1, TimesCol(NextYrN, a.MatAge, y + 1)),
               !.SBarray = SetYear(s.SBarray, y + 1, TimesCol(Bn, a.MatAge, y + 1)),
               !.VBarray = VBn,
               !.Marray = SetYear(s.Marray, y + 1, MCol(a.M_age, y + 1, a.maxage, a.nareas)),
               !.tempVec = tv,
               !.fishraw = fd,
               !.d1 = dd,
               !.fracE = fE,
               !.fishdist = fE2,
               !.FMarray = IF a.control \in {1, 2}
                           THEN SetYear(s.FMarray, y + 1, FatAge(mult, fE2, a.Vuln, y + 1, a.Asize_c))
                           ELSE s.FMarray,
               !.FMretarray = IF a.control \in {1, 2}
                              THEN SetYear(s.FMretarray, y + 1, FatAge(mult, fE2, a.Retc, y + 1, a.Asize_c))
                              ELSE s.FMretarray,
               !.calls = Append(s.calls, [SSBcurr |-> SB, Ncurr |-> Ncurr2, Zcurr |-> Zcurr,
                                          mov |-> a.movc[y], Nnext |-> r.Nnext, Nstore |-> r.Nstore])]} :
    IF a.control = 3 THEN Unfished(a, u, y, t) ELSE Fished(a, u, y, t)

(* ------------------------------- state --------------------------------- *)
VARIABLES
  p,          \* the arguments of popdynCPP
  pc,         \* "start", "loop" (year 0 done, at the head of the for loop), "done"
  yr,         \* the loop counter
  loc,        \* the locals of the call: the cubes, vectors and the closure step's
              \* fishraw (fishdist before the closure step), d1 and fracE of the
              \* latest iteration, and the log of the calls of popdynOneTScpp
  twin,       \* the locals of the call on Twin(p), made alongside
  tsIn,       \* the arguments of the direct calls of popdynOneTScpp
  tsOut       \* their results so far, by plusgroup flag

main == <<p, pc, yr, loc, twin>>
vars == <<main, tsIn, tsOut>>

Narray == loc.Narray
Barray == loc.Barray
SSNarray == loc.SSNarray
SBarray == loc.SBarray
VBarray == loc.VBarray
Marray == loc.Marray
FMarray == loc.FMarray
FMretarray == loc.FMretarray
Zarray == loc.Zarray
fishdist == loc.fishdist
fishraw == loc.fishraw
d1 == loc.d1
fracE == loc.fracE
calls == loc.calls

Ages == 0..(p.maxage - 1)
Years == 0..(p.pyears - 1)
Areas == 0..(p.nareas - 1)

\* popdynCPP is entered with the arguments a
Enter(a) ==
  /\ p = a
  /\ yr = 0
  /\ loc = Declared(a)
  /\ twin = Declared(Twin(a))

Init ==
  /\ \E a \in ArgSet : Enter(a)
  /\ pc = "start"
  /\ tsIn = << >>
  /\ tsOut = << >>

InitialYear ==
  /\ pc = "start"
  /\ YearZero(p, loc, loc')
  /\ YearZero(Twin(p), twin, twin')
  /\ pc' = "loop"
  /\ UNCHANGED <<p, yr, tsIn, tsOut>>

ProjectYear ==
  /\ pc = "loop"
  /\ yr < p.pyears - 1
  /\ LoopBody(p, loc, yr, loc')
  /\ LoopBody(Twin(p), twin, yr, twin')
  /\ yr' = yr + 1
  /\ UNCHANGED <<p, pc, tsIn, tsOut>>

\* lines 287-297: the loop has ended and the eight cubes are returned
Return ==
  /\ pc = "loop"
  /\ yr >= p.pyears - 1
  /\ pc' = "done"
  /\ UNCHANGED <<p, yr, loc, twin, tsIn, tsOut>>

Next == InitialYear \/ ProjectYear \/ Return

Spec == Init /\ [][Next]_vars

(* ------------------- direct calls of popdynOneTScpp -------------------- *)
\* the same arguments are given to popdynOneTScpp once with each plusgroup flag
TSInit ==
  /\ Enter(Args(1, MaxAge, MaxYears, 3, 0, 1, 0, Num(2), "flat", "stay", "allopen"))
  /\ pc = "idle"
  /\ tsIn \in TSArgSet
  /\ tsOut = << >>

TSCall(flag) ==
  /\ pc = "idle"
  /\ flag \notin DOMAIN tsOut
  /\ tsOut' = (flag :> popdynOneTScpp(tsIn.nareas, tsIn.maxage, tsIn.SSBcurr, tsIn.Ncurr, tsIn.Zcurr,
                                       tsIn.PerrYr, tsIn.hs, tsIn.R0a, tsIn.SSBpR, tsIn.aR, tsIn.bR,
                                       tsIn.mov, tsIn.SRrel, flag)) @@ tsOut
  /\ UNCHANGED <<main, tsIn>>

CallNoPlusGroup == TSCall(0)
CallPlusGroup == TSCall(1)

TSNext == CallNoPlusGroup \/ CallPlusGroup

SpecTS == TSInit /\ [][TSNext]_vars

(* ------------------------------ properties ----------------------------- *)
\* the movement fractions of every source area sum to 1 at this age
ValidMov(mov, age, nareas) == \A AA \in 0..(nareas - 1) : SumTo(mov[age][AA], nareas) = One

\* every area is fully open (open fraction 1) in every year
NoClosures == \A y \in Years : \A A \in Areas : p.MPA[y][A] = One

\* C1 as stated: for each flag and age, if every source area's movement
\* fractions sum to 1, the returned abundance summed over areas equals the
\* abundance before movement summed over areas.
C1_Stated ==
  \A f \in DOMAIN tsOut : \A age \in 0..(tsIn.maxage - 1) :
    ValidMov(tsIn.mov, age, tsIn.nareas)
      => SumTo(tsOut[f].Nstore[age], tsIn.nareas) = SumTo(tsOut[f].Nnext[age], tsIn.nareas)

\* C1 as corrected: the same, for the ages whose abundance before movement is
\* finite in every area (the plus group at Z = 0 makes it infinite, and an
\* infinite abundance times a movement fraction of 0 is NaN).
C1_MovementConserves ==
  \A f \in DOMAIN tsOut : \A age \in 0..(tsIn.maxage - 1) :
    (/\ ValidMov(tsIn.mov, age, tsIn.nareas)
     /\ \A A \in 0..(tsIn.nareas - 1) : IsFinite(tsOut[f].Nnext[age][A]))
      => SumTo(tsOut[f].Nstore[age], tsIn.nareas) = SumTo(tsOut[f].Nnext[age], tsIn.nareas)

\* a call with two areas has moved half of a finite, positive age class
C1_Witness ==
  /\ 1 \in DOMAIN tsOut
  /\ tsIn.nareas >= 2
  /\ tsIn.mov[1][0][1] = Frac(1, 2)
  /\ ValidMov(tsIn.mov, 1, tsIn.nareas)
  /\ \A A \in 0..(tsIn.nareas - 1) : IsFinite(tsOut[1].Nnext[1][A])
  /\ Gt(tsOut[1].Nnext[1][0], Zero)
  /\ tsOut[1].Nstore[1] # tsOut[1].Nnext[1]

\* C2: at the return, every entry of FMarray and FMretarray is at most maxF,
\* in every control mode.
C2_FAtMostMaxF ==
  pc = "done" =>
    \A a \in Ages : \A y \in Years : \A A \in Areas :
      Le(FMarray[a][y][A], p.maxF) /\ Le(FMretarray[a][y][A], p.maxF)

\* C3: without the plus group, with Z >= 0 everywhere and movement fractions
\* summing to 1, the abundance at age a+1 in year y+1 summed over areas is the
\* sum over areas of N(a, y) * exp(-Z(a, y)) and is at most the abundance at
\* age a in year y summed over areas.
C3_MortalityMonotone ==
  (/\ pc = "done"
   /\ p.plusgroup = 0
   /\ \A a \in Ages : \A y \in Years : \A A \in Areas : Ge(Zarray[a][y][A], Zero)
   /\ \A y \in Years : \A a \in Ages : ValidMov(p.movc[y], a, p.nareas))
    => \A y \in 0..(p.pyears - 2) : \A a \in 0..(p.maxage - 2) :
         /\ SumTo(Narray[a + 1][y + 1], p.nareas)
              = SumTo([A \in Areas |-> Mul(Narray[a][y][A], Exp(Neg(Zarray[a][y][A])))], p.nareas)
         /\ Le(SumTo(Narray[a + 1][y + 1], p.nareas), SumTo(Narray[a][y], p.nareas))

\* a two-area run without plus group in which fish move and die
C3_Witness ==
  /\ pc = "done"
  /\ p.plusgroup = 0
  /\ p.nareas >= 2
  /\ p.movc[0][1][0][1] = Frac(1, 2)
  /\ \A a \in Ages : \A y \in Years : \A A \in Areas : Ge(Zarray[a][y][A], Zero)
  /\ \A y \in Years : \A a \in Ages : ValidMov(p.movc[y], a, p.nareas)
  /\ Gt(SumTo(Narray[0][0], p.nareas), SumTo(Narray[1][1], p.nareas))
  /\ Gt(SumTo(Narray[1][1], p.nareas), Zero)

\* C4 as stated: in each area the oldest age class before movement is strictly
\* greater with the plus group than without it when Z at the oldest age is > 0
\* and the survivors are positive, and equal to it when that Z is 0.
C4_Stated ==
  (0 \in DOMAIN tsOut /\ 1 \in DOMAIN tsOut) =>
    \A A \in 0..(tsIn.nareas - 1) :
      /\ (Gt(tsIn.Zcurr[tsIn.maxage - 1][A], Zero) /\ Gt(tsOut[0].Nnext[tsIn.maxage - 1][A], Zero))
           => Gt(tsOut[1].Nnext[tsIn.maxage - 1][A], tsOut[0].Nnext[tsIn.maxage - 1][A])
      /\ tsIn.Zcurr[tsIn.maxage - 1][A] = Zero
           => tsOut[1].Nnext[tsIn.maxage - 1][A] = tsOut[0].Nnext[tsIn.maxage - 1][A]

\* C4 as corrected: strictly greater when Z at the oldest age is > 0 and the
\* survivors are positive; when that Z is 0 the division is by 1 - exp(0) = 0,
\* which gives +infinity for positive survivors and NaN for no survivors.
C4_PlusGroupAccumulates ==
  (0 \in DOMAIN tsOut /\ 1 \in DOMAIN tsOut) =>
    \A A \in 0..(tsIn.nareas - 1) :
      /\ (Gt(tsIn.Zcurr[tsIn.maxage - 1][A], Zero) /\ Gt(tsOut[0].Nnext[tsIn.maxage - 1][A], Zero))
           => Gt(tsOut[1].Nnext[tsIn.maxage - 1][A], tsOut[0].Nnext[tsIn.maxage - 1][A])
      /\ (tsIn.Zcurr[tsIn.maxage - 1][A] = Zero /\ Gt(tsOut[0].Nnext[tsIn.maxage - 1][A], Zero))
           => tsOut[1].Nnext[tsIn.maxage - 1][A] = PInf
      /\ (tsIn.Zcurr[tsIn.maxage - 1][A] = Zero /\ tsOut[0].Nnext[tsIn.maxage - 1][A] = Zero)
           => tsOut[1].Nnext[tsIn.maxage - 1][A] = NaN

\* both calls are made; one area has Z > 0 at the oldest age and more fish
\* with the plus group, finitely many
C4_Witness ==
  /\ 0 \in DOMAIN tsOut
  /\ 1 \in DOMAIN tsOut
  /\ Gt(tsIn.Zcurr[tsIn.maxage - 1][0], Zero)
  /\ Gt(tsOut[0].Nnext[tsIn.maxage - 1][0], Zero)
  /\ IsFinite(tsOut[1].Nnext[tsIn.maxage - 1][0])
  /\ Gt(tsOut[1].Nnext[tsIn.maxage - 1][0], tsOut[0].Nnext[tsIn.maxage - 1][0])

\* C5: a mode-1 run with one area, every area open in every year and
\* Effind(y) * Qc = Fapic in every year returns the FMarray and FMretarray of
\* the mode-2 run on the same arguments (the run on Twin(p)).
C5_ModeEquivalence ==
  (/\ pc = "done"
   /\ p.control = 1
   /\ p.nareas = 1
   /\ NoClosures
   /\ \A y \in Years : Mul(p.Effind[y], p.Qc) = p.Fapic)
    => FMarray = twin.FMarray /\ FMretarray = twin.FMretarray

\* such a mode-1 run has returned, with fishing mortality below the cap
C5_Witness ==
  /\ pc = "done"
  /\ p.control = 1
  /\ p.nareas = 1
  /\ NoClosures
  /\ \A y \in Years : Mul(p.Effind[y], p.Qc) = p.Fapic
  /\ \A y \in Years : FMarray[0][y][0] = Frac(1, 2) /\ FMarray[1][y][0] = One

\* C6 as stated: when every area's MPA entry of the row used in an iteration
\* is 0, the final effort share of each area is its normalised weight.
C6_Stated ==
  (pc = "loop" /\ yr >= 1 /\ \A A \in Areas : p.MPA[yr - 1][A] = Zero)
    => fishdist = fishraw

\* C6 as corrected: an entry of 1 is fully open; when every area's MPA entry
\* of the row used in an iteration is 1, the final effort share of each area
\* is its normalised weight.
C6_OneIsOpen ==
  (pc = "loop" /\ yr >= 1 /\ \A A \in Areas : p.MPA[yr - 1][A] = One)
    => fishdist = fishraw

\* an iteration with an all-open row has left unequal, positive shares
C6_Witness ==
  /\ pc = "loop"
  /\ yr >= 1
  /\ p.nareas >= 2
  /\ \A A \in Areas : p.MPA[yr - 1][A] = One
  /\ \A A \in Areas : Gt(fishdist[A], Zero)
  /\ fishdist[0] # fishdist[1]
  /\ fishdist = fishraw

\* C7: in mode 3 with maxF >= 0, at the return FMarray and FMretarray are 0
\* and Zarray equals M_age(age, year) for every age, year and area.
C7_Mode3NoFishing ==
  (pc = "done" /\ p.control = 3 /\ Ge(p.maxF, Zero))
    => \A a \in Ages : \A y \in Years : \A A \in Areas :
         /\ FMarray[a][y][A] = Zero
         /\ FMretarray[a][y][A] = Zero
         /\ Zarray[a][y][A] = p.M_age[a][y]

\* a mode-3 run with a rising effort series and a closed year has returned
C7_Witness ==
  /\ pc = "done"
  /\ p.control = 3
  /\ Ge(p.maxF, Zero)
  /\ p.Effind[1] = Num(2)
  /\ \A A \in Areas : p.MPA[0][A] = Zero
  /\ Zarray[0][1][0] = p.M_age[0][1]

\* the year-y slices of the eight returned cubes
Outputs(y) ==
  <<YearSlice(Narray, y), YearSlice(Barray, y), YearSlice(SSNarray, y), YearSlice(SBarray, y),
    YearSlice(VBarray, y), YearSlice(FMarray, y), YearSlice(FMretarray, y), YearSlice(Zarray, y)>>

\* C8: once the loop is entered, no step changes the slices of a year already
\* produced (years 0..yr) in any of the eight returned cubes, and at the return
\* the Z of year y is the Zcurr that was passed to popdynOneTScpp for the
\* transition from year y to year y+1.
C8_WriteOnce ==
  /\ [][pc = "loop" => \A y \in 0..yr : Outputs(y)' = Outputs(y)]_vars
  /\ [](pc = "done" => \A y \in 0..(p.pyears - 2) : YearSlice(Zarray, y) = calls[y + 1].Zcurr)

\* a run of modes 1 or 2 whose year-0 fishing mortality was cut to maxF has
\* been through at least two iterations
C8_Witness ==
  /\ pc = "done"
  /\ yr >= 2
  /\ p.control \in {1, 2}
  /\ \E a \in Ages : \E A \in Areas : FMarray[a][0][A] = p.maxF
  /\ Len(calls) = yr

\* C9: after an iteration with fracE > 0 the final shares sum to 1, an area
\* whose open fraction is 0 has share 0, and every share is d1 / fracE.
C9_ReallocationConserves ==
  (pc = "loop" /\ yr >= 1 /\ Gt(fracE, Zero))
    => /\ SumTo(fishdist, p.nareas) = One
       /\ \A A \in Areas : p.MPA[yr - 1][A] = Zero => fishdist[A] = Zero
       /\ \A A \in Areas : fishdist[A] = Div(d1[A], fracE)

\* an iteration has closed the first of several areas and moved its effort
C9_Witness ==
  /\ pc = "loop"
  /\ yr >= 1
  /\ p.nareas >= 2
  /\ p.MPA[yr - 1][0] = Zero
  /\ Gt(fracE, Zero)
  /\ Gt(One, fracE)
  /\ fishdist[0] = Zero
  /\ Gt(fishdist[1], fishraw[1])

\* C10: in modes 1 and 2 the fishing mortality of every year y, year 0
\* included, is the capped product of the year's multiplier, vulnerability and
\* 1 / area size with the effort distribution of year y's vulnerable biomass,
\* masked and reallocated with row y of the MPA matrix.
C10_SameProcedureEveryYear ==
  (pc = "done" /\ p.control \in {1, 2})
    => \A y \in Years :
         \E fd \in {FishDist([A \in Areas |-> AccuYear(VBarray, p.maxage, y, A)], p.Spat_targc, p.nareas)} :
         \E dd \in {ClosureMask(p.MPA[y], fd, p.nareas)} :
         \E F \in {FatAge(Fmult(p.control, p.Effind, p.Qc, p.Fapic, y),
                          Reallocate(dd, SumTo(dd, p.nareas), p.nareas), p.Vuln, y, p.Asize_c)} :
           \A a \in Ages : \A A \in Areas : FMarray[a][y][A] = Fill(F[a][A], p.maxF)

====
